---- MODULE Spec2Model ----
(***************************************************************************)
(* HeySnipsDataset (src/wwdetect/wavenet/wavenet_loader.py): the in-memory *)
(* record list, its batching and padding, and the wakeword pruning.        *)
(*                                                                         *)
(* Conventions.  List positions are the 0-based Python positions; ListPos  *)
(* turns one into the 1-based position of the TLA+ sequence.  A 2-D array  *)
(* is [shape |-> <<rows, cols>>, data |-> rows of cols], a 3-D tensor is   *)
(* [shape |-> <<n, rows, cols>>, data |-> n matrices]: the shape is kept   *)
(* beside the data because an array of 0 rows still has a width.           *)
(* np.random.shuffle is a nondeterministic choice among all permutations.  *)
(* h5 is the feature store the constructor read (it never changes).       *)
(* The fields start_speech and end_speech of a record are never read by    *)
(* any method and are left out of the records.                             *)
(***************************************************************************)
EXTENDS Integers, Sequences, FiniteSets, TLC

VARIABLES dataset, num_wakewords, batch_size, num_batches, shuffle, h5, call

vars == <<dataset, num_wakewords, batch_size, num_batches, shuffle, h5, call>>

\* ---------------------------------------------------------------- bounds
\* the largest number of keys in the feature store
MaxRecords == 3
\* the largest batch_size given to the constructor
MaxBatch == 2
\* time_steps of the stored payloads range over 0..MaxT
MaxT == 2
\* the feature width of the stored payloads; pad_features inputs range over 1..MaxWidth
MaxWidth == 2
\* keep_ratio ranges over the halves 0/2 .. MaxRatioNum/2
MaxRatioNum == 3
\* the largest list handed to pad_features on its own
MaxPadLen == 3

\* ---------------------------------------------------------------- helpers
Min(a, b) == IF a < b THEN a ELSE b

MaxOf(S) == CHOOSE m \in S : \A x \in S : x <= m

\* Python list indexing: position i is valid for a list of n items
ListInRangeNoWrap(n, i) == 0 <= i /\ i < n

ListInRange(n, i) == -n <= i /\ i < n

\* the 1-based place of valid Python position i (negative positions count from the end)
ListPos(n, i) == IF i < 0 THEN n + i + 1 ELSE i + 1

\* del lst[i] for a valid position i
DelAt(lst, i) ==
    LET p == ListPos(Len(lst), i)
    IN  [j \in 1..(Len(lst) - 1) |-> IF j < p THEN lst[j] ELSE lst[j + 1]]

SliceToExclusive(lst, k) == [j \in 1..Min(k - 1, Len(lst)) |-> lst[j]]

\* lst[:k] for k >= 0: slicing clamps to the length
SliceTo(lst, k) == [j \in 1..Min(k, Len(lst)) |-> lst[j]]

\* np.random.shuffle(lst): every permutation of lst is a possible outcome
Shuffle(lst) == {[j \in 1..Len(lst) |-> lst[p[j]]] : p \in Permutations(1..Len(lst))}

\* ---------------------------------------------------------------- preload_data
\* np.array(value, dtype=np.float32) of a non-negative integer below 2^25:
\* 24 bits of mantissa, round to nearest, ties to even
Float32(v) ==
    IF v <= 16777216 THEN v
    ELSE LET lo == 2 * (v \div 2)
         IN  IF v = lo THEN v
             ELSE IF lo % 4 = 0 THEN lo ELSE lo + 2

\* np.uint8(value)
Uint8(v) == v % 256

\* the payload stored under key k: (k % (MaxT+1)) rows of MaxWidth values
StoredValue(k, r, c) == IF r = 1 /\ c = 1 THEN 16777216 + k ELSE 100 * k + 10 * r + c

StoredPayload(k) ==
    [shape |-> <<k % (MaxT + 1), MaxWidth>>,
     data  |-> [r \in 1..(k % (MaxT + 1)) |-> [c \in 1..MaxWidth |-> StoredValue(k, r, c)]]]

\* the feature stores: keys 1..n, each with an is_hotword attribute in {0, 1}
Stores == UNION {[1..n -> {0, 1}] : n \in 0..MaxRecords}

ToFloat32Array(a) ==
    [shape |-> a.shape,
     data  |-> [r \in 1..a.shape[1] |-> [c \in 1..a.shape[2] |-> Float32(a.data[r][c])]]]

LoadRecord(k, is_hotword) ==
    [file_name |-> k, label |-> Uint8(is_hotword), features |-> ToFloat32Array(StoredPayload(k))]

CountWakewordsAll(store) == Cardinality(DOMAIN store)

\* the running count of keys whose is_hotword attribute is 1
CountWakewords(store) == Cardinality({k \in DOMAIN store : store[k] = 1})

PreloadData(store) ==
    [dataset       |-> [k \in DOMAIN store |-> LoadRecord(k, store[k])],
     num_wakewords |-> CountWakewords(store)]

NumBatchesCeil(lst, bs) == (Len(lst) + bs - 1) \div bs

\* len(self.dataset) // batch_size
NumBatches(lst, bs) == Len(lst) \div bs

Ret(name, arg, err, val) == [name |-> name, arg |-> arg, err |-> err, val |-> val]

Init ==
    \E store \in Stores, bs \in 1..MaxBatch, sh \in BOOLEAN :
        /\ dataset = PreloadData(store).dataset
        /\ num_wakewords = PreloadData(store).num_wakewords
        /\ h5 = store
        /\ batch_size = bs
        /\ num_batches = NumBatches(PreloadData(store).dataset, bs)
        /\ shuffle = sh
        /\ call = Ret("__init__", 0, "none", 0)

\* ---------------------------------------------------------------- pad_features
MaxLengthFirst(X) == X[1].shape[1]

\* max([x.shape[0] for x in X])
MaxLength(X) == MaxOf({X[j].shape[1] : j \in 1..Len(X)})

BroadcastableAlways(src, dst) == TRUE

\* numpy assignment of a block of src items into a slice of dst items along one
\* axis: the sizes agree, or the source has size 1 and is repeated
Broadcastable(src, dst) == src = dst \/ src = 1

\* X_padded[idx, :features.shape[1], :features.shape[2]] = features, for one array
\* `a` of the list: the slice is clamped to the tensor, the array is not
AssignFits(a, max_length, width) ==
    /\ Broadcastable(a.shape[1], Min(a.shape[1], max_length))
    /\ Broadcastable(a.shape[2], Min(a.shape[2], width))

\* the value the assignment leaves at row r, column c of the slot of array `a`
PaddedValue(a, max_length, width, r, c) ==
    IF r <= Min(a.shape[1], max_length) /\ c <= Min(a.shape[2], width)
    THEN a.data[r][c]
    ELSE 0

PadFeatures(X) ==
    LET max_length == MaxLength(X)
        width      == X[1].shape[2]
    IN  IF \E j \in 1..Len(X) : ~AssignFits(X[j], max_length, width)
        THEN [err |-> "ValueError", val |-> 0]
        ELSE [err |-> "none",
              val |-> [shape |-> <<Len(X), max_length, width>>,
                       data  |-> [j \in 1..Len(X) |->
                                    [r \in 1..max_length |->
                                       [c \in 1..width |->
                                          PaddedValue(X[j], max_length, width, r, c)]]]]]

\* ---------------------------------------------------------------- __getitem__
\* np.arange(batch_start, batch_start + batch_size), as 0-based positions
BatchIdxs(bs, index) == [j \in 1..bs |-> bs * index + j - 1]

GetItem(lst, bs, index) ==
    LET batch_idxs == BatchIdxs(bs, index)
    IN  IF \E j \in 1..bs : ~ListInRange(Len(lst), batch_idxs[j])
        THEN [err |-> "IndexError", val |-> 0]
        ELSE LET X == [j \in 1..bs |-> lst[ListPos(Len(lst), batch_idxs[j])].features]
                 y == [j \in 1..bs |-> lst[ListPos(Len(lst), batch_idxs[j])].label]
                 P == PadFeatures(X)
             IN  IF P.err # "none" THEN [err |-> P.err, val |-> 0]
                 ELSE [err |-> "none", val |-> [X |-> P.val, y |-> y]]

\* the batch indices a caller may pass: both sides of [0, num_batches)
Indices == (0 - MaxRecords - 1)..MaxRecords

GetItemCall ==
    \E index \in Indices :
        /\ call' = Ret("__getitem__", index,
                       GetItem(dataset, batch_size, index).err,
                       GetItem(dataset, batch_size, index).val)
        /\ UNCHANGED <<dataset, num_wakewords, batch_size, num_batches, shuffle, h5>>

LenCall ==
    /\ call' = Ret("__len__", 0, "none", num_batches)
    /\ UNCHANGED <<dataset, num_wakewords, batch_size, num_batches, shuffle, h5>>

\* ---------------------------------------------------------------- prune_wakewords
\* the keep_ratio arguments: the floats num/2, exact in binary floating point
KeepRatios == {[num |-> n, den |-> 2] : n \in 0..MaxRatioNum}

\* the positions of the records with label 1, ascending
WakewordIdxs(lst) ==
    LET F[n \in 0..Len(lst)] ==
            IF n = 0 THEN <<>>
            ELSE IF lst[n].label = 1 THEN Append(F[n - 1], n - 1) ELSE F[n - 1]
    IN  F[Len(lst)]

NotReversed(s) == s

\* reversed(s)
Reversed(s) == [j \in 1..Len(s) |-> s[Len(s) + 1 - j]]

\* the loop that moves the records at the positions `order`, one at a time and in
\* that order, from the list to `moved`; a position the list no longer has raises
RECURSIVE MoveWakewords(_, _, _)
MoveWakewords(lst, order, moved) ==
    IF order = <<>> THEN [err |-> "none", dataset |-> lst, wakewords |-> moved]
    ELSE IF ~ListInRange(Len(lst), Head(order))
         THEN [err |-> "IndexError", dataset |-> lst, wakewords |-> moved]
         ELSE MoveWakewords(DelAt(lst, Head(order)), Tail(order),
                            Append(moved, lst[ListPos(Len(lst), Head(order))]))

KeepCountCeil(keep_ratio, nw) == (keep_ratio.num * nw + keep_ratio.den - 1) \div keep_ratio.den

\* int(keep_ratio * self.num_wakewords) for keep_ratio >= 0
KeepCount(keep_ratio, nw) == (keep_ratio.num * nw) \div keep_ratio.den

\* wakewords[:int(keep_ratio*self.num_wakewords)] after np.random.shuffle(wakewords):
\* the lists that may be appended to the dataset
KeptOutcomes(wakewords, nw, keep_ratio) ==
    {SliceTo(w, KeepCount(keep_ratio, nw)) : w \in Shuffle(wakewords)}

\* the lists prune_wakewords(keep_ratio) may leave in self.dataset, given the list
\* and the wakewords the loop left
PruneOutcomes(rest, wakewords, nw, keep_ratio) ==
    UNION {Shuffle(rest \o kept) : kept \in KeptOutcomes(wakewords, nw, keep_ratio)}

PruneWakewords ==
    \E keep_ratio \in KeepRatios :
        LET m == MoveWakewords(dataset, Reversed(WakewordIdxs(dataset)), <<>>)
        IN  IF m.err # "none"
            THEN /\ dataset' = m.dataset
                 /\ call' = Ret("prune_wakewords", keep_ratio, m.err, 0)
                 /\ UNCHANGED <<num_wakewords, batch_size, num_batches, shuffle, h5>>
            ELSE \E d \in PruneOutcomes(m.dataset, m.wakewords, num_wakewords, keep_ratio) :
                    /\ dataset' = d
                    /\ num_batches' = NumBatches(d, batch_size)
                    /\ call' = Ret("prune_wakewords", keep_ratio, "none", 0)
                    /\ UNCHANGED <<num_wakewords, batch_size, shuffle, h5>>

\* ---------------------------------------------------------------- accessors
AssertAlwaysPasses(sh) == "none"

\* assert not self.shuffle
AssertNotShuffle(sh) == IF sh THEN "AssertionError" ELSE "none"

GetLabels ==
    /\ call' = IF AssertNotShuffle(shuffle) # "none"
               THEN Ret("get_labels", 0, AssertNotShuffle(shuffle), 0)
               ELSE Ret("get_labels", 0, "none", [i \in 1..Len(dataset) |-> dataset[i].label])
    /\ UNCHANGED <<dataset, num_wakewords, batch_size, num_batches, shuffle, h5>>

GetFilenames ==
    /\ call' = IF AssertNotShuffle(shuffle) # "none"
               THEN Ret("get_filenames", 0, AssertNotShuffle(shuffle), 0)
               ELSE Ret("get_filenames", 0, "none", [i \in 1..Len(dataset) |-> dataset[i].file_name])
    /\ UNCHANGED <<dataset, num_wakewords, batch_size, num_batches, shuffle, h5>>

NumberOfExamples ==
    /\ call' = Ret("number_of_examples", 0, "none", Len(dataset))
    /\ UNCHANGED <<dataset, num_wakewords, batch_size, num_batches, shuffle, h5>>

NumberOfWakewords ==
    /\ call' = Ret("number_of_wakewords", 0, "none", num_wakewords)
    /\ UNCHANGED <<dataset, num_wakewords, batch_size, num_batches, shuffle, h5>>

EpochEndAlwaysShuffles(lst, sh) == Shuffle(lst)

\* the lists on_epoch_end may leave in self.dataset
EpochEndOutcomes(lst, sh) == IF sh THEN Shuffle(lst) ELSE {lst}

OnEpochEnd ==
    \E d \in EpochEndOutcomes(dataset, shuffle) :
        /\ dataset' = d
        /\ call' = Ret("on_epoch_end", 0, "none", 0)
        /\ UNCHANGED <<num_wakewords, batch_size, num_batches, shuffle, h5>>

Next ==
    \/ LenCall
    \/ GetItemCall
    \/ PruneWakewords
    \/ GetLabels
    \/ GetFilenames
    \/ NumberOfExamples
    \/ NumberOfWakewords
    \/ OnEpochEnd

Spec == Init /\ [][Next]_vars

\* ---------------------------------------------------------------- pad_features alone
\* the 2-D arrays of 1..MaxT rows and 1..MaxWidth columns; the array in place j of a
\* list holds 100*j + 10*r + c at row r, column c (never zero)
PadShapes == (1..MaxT) \X (1..MaxWidth)

PadArray(j, shape) ==
    [shape |-> shape,
     data  |-> [r \in 1..shape[1] |-> [c \in 1..shape[2] |-> 100 * j + 10 * r + c]]]

PadInputs ==
    UNION {{[j \in 1..n |-> PadArray(j, shapes[j])] : shapes \in [1..n -> PadShapes]} :
             n \in 1..MaxPadLen}

\* a dataset over an empty store, about to be handed the list X
PadInit ==
    \E X \in PadInputs :
        /\ dataset = PreloadData(<<>>).dataset
        /\ num_wakewords = PreloadData(<<>>).num_wakewords
        /\ h5 = <<>>
        /\ batch_size = 1
        /\ num_batches = NumBatches(<<>>, 1)
        /\ shuffle = FALSE
        /\ call = Ret("input", X, "none", 0)

PadFeaturesCall ==
    /\ call.name = "input"
    /\ call' = Ret("pad_features", call.arg, PadFeatures(call.arg).err, PadFeatures(call.arg).val)
    /\ UNCHANGED <<dataset, num_wakewords, batch_size, num_batches, shuffle, h5>>

PadNext == PadFeaturesCall

PadSpec == PadInit /\ [][PadNext]_vars

\* ---------------------------------------------------------------- properties
\* the records as the constructor loaded them
Loaded == PreloadData(h5).dataset

Positives(lst) == Cardinality({i \in 1..Len(lst) : lst[i].label = 1})

Occurrences(lst, rec) == Cardinality({i \in 1..Len(lst) : lst[i] = rec})

NotWakeword(rec) == rec.label # 1

\* lst and other hold the same records, each as often
SameRecords(lst, other) ==
    /\ Len(lst) = Len(other)
    /\ \A i \in 1..Len(other) : Occurrences(lst, other[i]) = Occurrences(other, other[i])

\* floor(keep_ratio * n), from the definition of floor
FloorRatio(keep_ratio, n) ==
    CHOOSE q \in 0..(keep_ratio.num * n) :
        q * keep_ratio.den <= keep_ratio.num * n /\ keep_ratio.num * n < (q + 1) * keep_ratio.den

Accessors == {"get_labels", "get_filenames", "number_of_examples", "number_of_wakewords"}

\* C1: in every state num_batches is len(dataset) // batch_size and __len__ returns
\* that value (so prune_wakewords has recomputed it), and on_epoch_end leaves
\* num_batches as it was.
C1_NumBatches ==
    /\ [](/\ num_batches = Len(dataset) \div batch_size
          /\ call.name = "__len__" => call.val = Len(dataset) \div batch_size)
    /\ [][call'.name = "on_epoch_end" => num_batches' = num_batches]_vars

\* a prune_wakewords call has left a batch count other than the one at construction
C1_Witness ==
    /\ call.name = "prune_wakewords"
    /\ num_batches # Len(Loaded) \div batch_size
    /\ num_batches > 0

\* C2: __getitem__(i) with 0 <= i < num_batches raises nothing, its positions
\* batch_size*i .. batch_size*i + batch_size - 1 lie below len(dataset), y holds the
\* labels of those records in order, and X has shape (batch_size, longest
\* time_steps of the slice, feature width) with each record's features in the
\* first rows of its slot and zero in every row at or beyond its time_steps.
C2_Batch ==
    (call.name = "__getitem__" /\ 0 <= call.arg /\ call.arg < num_batches) =>
        LET first == batch_size * call.arg
            longest == MaxOf({dataset[first + k].features.shape[1] : k \in 1..batch_size})
        IN  /\ call.err = "none"
            /\ first + batch_size <= Len(dataset)
            /\ DOMAIN call.val.y = 1..batch_size
            /\ \A k \in 1..batch_size : call.val.y[k] = dataset[first + k].label
            /\ call.val.X.shape = <<batch_size, longest, dataset[first + 1].features.shape[2]>>
            /\ DOMAIN call.val.X.data = 1..batch_size
            /\ \A k \in 1..batch_size :
                 LET f == dataset[first + k].features
                 IN  /\ f.shape[1] <= longest
                     /\ f.shape[2] = call.val.X.shape[3]
                     /\ DOMAIN call.val.X.data[k] = 1..longest
                     /\ \A r \in 1..longest :
                          /\ DOMAIN call.val.X.data[k][r] = 1..f.shape[2]
                          /\ \A c \in 1..f.shape[2] :
                               call.val.X.data[k][r][c] =
                                   IF r <= f.shape[1] THEN f.data[r][c] ELSE 0

\* a batch of two records of different time_steps was returned: the shorter one is padded
C2_Witness ==
    /\ call.name = "__getitem__" /\ 0 <= call.arg /\ call.arg < num_batches
    /\ call.err = "none"
    /\ batch_size >= 2
    /\ \E k \in 1..batch_size :
         /\ dataset[batch_size * call.arg + k].features.shape[1] >= 1
         /\ dataset[batch_size * call.arg + k].features.shape[1] < call.val.X.shape[2]

\* C3: prune_wakewords(keep_ratio) with keep_ratio >= 0 raises nothing and leaves
\* min(floor(keep_ratio * num_wakewords), P) records of label 1, num_wakewords being
\* the count at load and P the number of label-1 records before the call.
C3_PruneKeeps ==
    [][call'.name = "prune_wakewords" =>
          /\ call'.err = "none"
          /\ Positives(dataset') =
                 Min(FloorRatio(call'.arg, num_wakewords), Positives(dataset))]_vars

\* a later prune_wakewords call whose ratio asked for more wakewords than were left
C3_Witness ==
    /\ call.name = "prune_wakewords"
    /\ call.err = "none"
    /\ Positives(dataset) > 0
    /\ Positives(dataset) < FloorRatio(call.arg, num_wakewords)

\* C4: the dataset always holds loaded records only, none twice, and every loaded
\* record of label 0 exactly once; and in prune_wakewords the list left by deleting
\* the wakeword positions in descending order is the records of label other than 1
\* in the order they had before the call.
C4_NegativesKept ==
    /\ [](/\ \A i \in 1..Len(dataset) :
               /\ \E k \in 1..Len(Loaded) : Loaded[k] = dataset[i]
               /\ Occurrences(dataset, dataset[i]) = 1
          /\ \A k \in 1..Len(Loaded) :
               Loaded[k].label = 0 => Occurrences(dataset, Loaded[k]) = 1)
    /\ [][call'.name = "prune_wakewords" =>
            LET m == MoveWakewords(dataset, Reversed(WakewordIdxs(dataset)), <<>>)
            IN  /\ m.err = "none"
                /\ m.dataset = SelectSeq(dataset, NotWakeword)
                /\ SelectSeq(dataset', NotWakeword) \in Shuffle(SelectSeq(dataset, NotWakeword))]_vars

\* prune_wakewords dropped a wakeword that was loaded before a record of label 0
C4_Witness ==
    /\ call.name = "prune_wakewords"
    /\ \E i, j \in 1..Len(Loaded) :
         /\ i < j
         /\ Loaded[i].label = 1 /\ Loaded[j].label = 0
         /\ Occurrences(dataset, Loaded[i]) = 0
         /\ Occurrences(dataset, Loaded[j]) = 1

\* C5: prune_wakewords(1.0) on a dataset that still holds every loaded record (as a
\* freshly loaded one does) leaves the record count and num_batches unchanged and
\* num_wakewords records of label 1: the dataset is a permutation of the loaded records.
C5_PruneAllKept ==
    [][(/\ call'.name = "prune_wakewords"
        /\ call'.arg.num = call'.arg.den
        /\ Len(dataset) = Len(Loaded)) =>
          /\ call'.err = "none"
          /\ Len(dataset') = Len(dataset)
          /\ Positives(dataset') = num_wakewords
          /\ SameRecords(dataset', Loaded)
          /\ num_batches' = num_batches]_vars

\* prune_wakewords(1.0) kept all of at least two wakewords and reordered the list
C5_Witness ==
    /\ call.name = "prune_wakewords"
    /\ call.arg.num = call.arg.den
    /\ Len(dataset) = Len(Loaded)
    /\ num_wakewords >= 2
    /\ dataset # Loaded

\* C6: get_labels and get_filenames raise the assertion error exactly when shuffle
\* is true, in every state; when shuffle is false they return one label / file
\* name per record in the current order; either way dataset, num_batches and
\* num_wakewords are left unchanged.
C6_OrderedAccessors ==
    /\ []((call.name \in {"get_labels", "get_filenames"}) =>
            IF shuffle THEN call.err = "AssertionError"
            ELSE /\ call.err = "none"
                 /\ DOMAIN call.val = 1..Len(dataset)
                 /\ \A i \in 1..Len(dataset) :
                      call.val[i] = IF call.name = "get_labels"
                                    THEN dataset[i].label ELSE dataset[i].file_name)
    /\ [][call'.name \in {"get_labels", "get_filenames"} =>
            UNCHANGED <<dataset, num_batches, num_wakewords>>]_vars

\* get_labels failed on a dataset with shuffle enabled that was never reordered
C6_Witness ==
    /\ call.name = "get_labels"
    /\ call.err = "AssertionError"
    /\ shuffle
    /\ dataset = Loaded
    /\ Len(dataset) >= 2

\* C7 as stated: __getitem__(index) with index < 0 or index >= num_batches raises
\* IndexError and returns no batch.
C7_OutOfRangeRaises ==
    (call.name = "__getitem__" /\ (call.arg < 0 \/ call.arg >= num_batches)) =>
        call.err = "IndexError"

\* C7 amended: __getitem__(index) raises IndexError when index >= num_batches or
\* index < -num_batches; for -num_batches <= index < 0 it raises nothing and returns
\* the batch of the records at the positions len(dataset) + batch_size*index + k,
\* k = 0 .. batch_size-1.
C7_WrapOrRaise ==
    (call.name = "__getitem__" /\ (call.arg < 0 \/ call.arg >= num_batches)) =>
        IF call.arg >= num_batches \/ call.arg < 0 - num_batches
        THEN call.err = "IndexError"
        ELSE LET first == Len(dataset) + batch_size * call.arg
             IN  /\ call.err = "none"
                 /\ first >= 0
                 /\ \A k \in 1..batch_size : call.val.y[k] = dataset[first + k].label
                 /\ call.val.X =
                        PadFeatures([k \in 1..batch_size |-> dataset[first + k].features]).val

\* a negative index returned a batch
C7_Witness ==
    /\ call.name = "__getitem__"
    /\ call.arg < 0
    /\ call.err = "none"
    /\ Len(dataset) > batch_size

\* C8: num_wakewords is the number of loaded records of label 1 and no operation
\* changes it, nor batch_size, nor shuffle; number_of_wakewords() returns it and
\* number_of_examples() returns the current len(dataset).
C8_FrozenCount ==
    /\ [](/\ num_wakewords = Positives(Loaded)
          /\ call.name = "number_of_wakewords" => call.val = num_wakewords
          /\ call.name = "number_of_examples" => call.val = Len(dataset))
    /\ [][/\ num_wakewords' = num_wakewords
          /\ batch_size' = batch_size
          /\ shuffle' = shuffle]_vars

\* number_of_wakewords() returned a count that is no longer the number of label-1 records
C8_Witness ==
    /\ call.name = "number_of_wakewords"
    /\ call.val # Positives(dataset)
    /\ call.val = Positives(Loaded)

\* C9: on_epoch_end leaves the list as it is when shuffle is false and only permutes
\* it when shuffle is true, and changes nothing else; __getitem__, __len__ and the
\* accessors never reorder the list.
C9_EpochEnd ==
    [][/\ call'.name = "on_epoch_end" =>
            /\ IF shuffle THEN dataset' \in Shuffle(dataset) ELSE dataset' = dataset
            /\ SameRecords(dataset', dataset)
            /\ UNCHANGED <<num_batches, num_wakewords, batch_size, shuffle>>
       /\ call'.name \in Accessors \cup {"__getitem__", "__len__"} =>
            dataset' = dataset]_vars

\* on_epoch_end reordered a dataset with shuffle enabled
C9_Witness ==
    /\ call.name = "on_epoch_end"
    /\ shuffle
    /\ SameRecords(dataset, Loaded)
    /\ dataset # Loaded

\* C10 as stated: pad_features never raises on arrays of different widths and
\* returns a tensor of the first array's width.
C10_NeverRaises ==
    call.name = "pad_features" =>
        /\ call.err = "none"
        /\ call.val.shape[3] = call.arg[1].shape[2]

\* C10 amended: pad_features raises ValueError exactly when some array is wider than
\* the first one (and is not of width 1, which broadcasts); otherwise it returns a
\* tensor of the first array's width and the longest array's rows, each array
\* copied into the top-left of its slot and zero elsewhere.
C10_RaisesOnWider ==
    call.name = "pad_features" =>
        LET X == call.arg
            width == X[1].shape[2]
            longest == MaxOf({X[j].shape[1] : j \in 1..Len(X)})
        IN  IF \E j \in 1..Len(X) : X[j].shape[2] > width /\ X[j].shape[2] # 1
            THEN call.err = "ValueError"
            ELSE /\ call.err = "none"
                 /\ call.val.shape = <<Len(X), longest, width>>
                 /\ \A j \in 1..Len(X) : \A r \in 1..longest : \A c \in 1..width :
                      call.val.data[j][r][c] =
                          IF r <= X[j].shape[1] /\ c <= X[j].shape[2]
                          THEN X[j].data[r][c] ELSE 0

\* a later array narrower than the first was zero-filled without an error
C10_Witness ==
    /\ call.name = "pad_features"
    /\ call.err = "none"
    /\ \E j \in 2..Len(call.arg) :
         /\ call.arg[j].shape[1] >= 1
         /\ call.arg[j].shape[2] >= 1
         /\ call.arg[j].shape[2] < call.arg[1].shape[2]
====
